---- MODULE Spec2Model ----
(***************************************************************************)
(* Generation orchestration of the picture-book application:               *)
(* services/geminiService.ts (client accessor, retryable-error classifier, *)
(* story generation, per-page image generation, page regeneration).        *)
(*                                                                         *)
(* JavaScript values are records of one shape, so that any two of them can *)
(* be compared; strings are sequences of one-character strings.            *)
(***************************************************************************)
EXTENDS Integers, Sequences, FiniteSets, TLC

\* ------------------------------------------------------------------------
\* Bounds of the model
\* ------------------------------------------------------------------------

\* longest pages array a story response carries, and largest page count asked
MaxParts == 2

\* ------------------------------------------------------------------------
\* Program constants
\* ------------------------------------------------------------------------

MAX_RETRIES == 3

INITIAL_DELAY_MS == 2000

\* ------------------------------------------------------------------------
\* JavaScript values
\* ------------------------------------------------------------------------

JsVal(t, n, s, a, o) == [t |-> t, n |-> n, s |-> s, a |-> a, o |-> o]

Undefined == JsVal("undefined", 0, <<>>, <<>>, <<>>)

Null == JsVal("null", 0, <<>>, <<>>, <<>>)

Bool(b) == JsVal(IF b THEN "true" ELSE "false", 0, <<>>, <<>>, <<>>)

Num(n) == JsVal("number", n, <<>>, <<>>, <<>>)

\* s: the characters of the string
Str(s) == JsVal("string", 0, s, <<>>, <<>>)

\* a: the elements
Arr(a) == JsVal("array", 0, <<>>, a, <<>>)

\* o: the properties in insertion order, each <<key characters, value>>
Obj(o) == JsVal("object", 0, <<>>, <<>>, o)

\* typeof v === 'object' && v !== null
IsObject(v) == v.t \in {"object", "array"}

\* key in v
HasField(v, key) == v.t = "object" /\ \E k \in 1..Len(v.o) : v.o[k][1] = key

\* v?.key : undefined when v has no such property (or is null, undefined or a
\* primitive, none of which has the properties the program reads)
GetField(v, key) ==
    IF HasField(v, key)
    THEN LET last == CHOOSE k \in 1..Len(v.o) :
                         /\ v.o[k][1] = key
                         /\ \A j \in (k+1)..Len(v.o) : v.o[j][1] # key
         IN v.o[last][2]
    ELSE Undefined

Digits == <<"0", "1", "2", "3", "4", "5", "6", "7", "8", "9">>

IsDigit(c) == \E d \in 1..10 : Digits[d] = c

DigitVal(c) == (CHOOSE d \in 1..10 : Digits[d] = c) - 1

\* String.prototype.includes
Includes(s, sub) ==
    \E k \in 0..(Len(s) - Len(sub)) :
        \A j \in 1..Len(sub) : s[k + j] = sub[j]

\* ------------------------------------------------------------------------
\* JSON.parse, for the grammar the modelled texts use: objects, arrays,
\* strings without escapes, non-negative integers, null, true, false, with
\* spaces between tokens. A result is [ok, v, p]: p is the position after the
\* value; ok = FALSE is the SyntaxError.
\* ------------------------------------------------------------------------

ParseFail == [ok |-> FALSE, v |-> Undefined, p |-> 0]

ParseOk(v, p) == [ok |-> TRUE, v |-> v, p |-> p]

RECURSIVE SkipWs(_, _)
SkipWs(src, p) ==
    IF p <= Len(src) /\ src[p] = " " THEN SkipWs(src, p + 1) ELSE p

StartsAt(src, p, word) ==
    /\ p + Len(word) - 1 <= Len(src)
    /\ \A j \in 1..Len(word) : src[p + j - 1] = word[j]

RECURSIVE DigitsEnd(_, _)
\* the position after the run of digits that starts at p
DigitsEnd(src, p) ==
    IF p <= Len(src) /\ IsDigit(src[p]) THEN DigitsEnd(src, p + 1) ELSE p

RECURSIVE DecimalValue(_, _, _)
\* the value of the digits src[p..q-1]
DecimalValue(src, p, q) ==
    IF q <= p THEN 0
    ELSE 10 * DecimalValue(src, p, q - 1) + DigitVal(src[q - 1])

ParseNumber(src, p) ==
    LET q == DigitsEnd(src, p)
    IN IF src[p] = "0" /\ q > p + 1 THEN ParseFail
       ELSE ParseOk(Num(DecimalValue(src, p, q)), q)

RECURSIVE StringEnd(_, _)
\* the position of the closing quote of the string whose text starts at p;
\* 0 when there is none (or an escape, which the grammar leaves out)
StringEnd(src, p) ==
    IF p > Len(src) \/ src[p] = "\\" THEN 0
    ELSE IF src[p] = "\"" THEN p
    ELSE StringEnd(src, p + 1)

ParseString(src, p) ==
    LET q == StringEnd(src, p + 1)
    IN IF q = 0 THEN ParseFail
       ELSE ParseOk(Str(SubSeq(src, p + 1, q - 1)), q + 1)

\* the one element of a singleton; with S = { F(x) : x \in {e} } it gives
\* F(e) with e evaluated once, however often F uses it
Only(S) == CHOOSE x \in S : TRUE

RECURSIVE ParseValue(_, _)
RECURSIVE ParseElements(_, _, _)
RECURSIVE AfterElement(_, _, _)
RECURSIVE ParseMembers(_, _, _)
RECURSIVE AfterMember(_, _, _, _)

\* an array element at p, then what follows it
ParseElements(src, p, acc) ==
    Only({ AfterElement(src, e, acc) : e \in { ParseValue(src, p) } })

\* after the element e: "," and the next element, or "]"
AfterElement(src, e, acc) ==
    LET q == SkipWs(src, e.p)
    IN IF ~e.ok \/ q > Len(src) THEN ParseFail
       ELSE IF src[q] = "]" THEN ParseOk(Arr(Append(acc, e.v)), q + 1)
       ELSE IF src[q] = "," THEN ParseElements(src, q + 1, Append(acc, e.v))
       ELSE ParseFail

\* a member "key": value at p, then what follows it
ParseMembers(src, p, acc) ==
    LET kp == SkipWs(src, p)
    IN Only({
         LET c == SkipWs(src, k.p)
         IN IF ~k.ok \/ c > Len(src) \/ src[c] # ":" THEN ParseFail
            ELSE Only({ AfterMember(src, k.v.s, e, acc) : e \in { ParseValue(src, c + 1) } }) :
         k \in { IF kp <= Len(src) /\ src[kp] = "\"" THEN ParseString(src, kp)
                 ELSE ParseFail } })

\* after the member key: e, "," and the next member, or "}"
AfterMember(src, key, e, acc) ==
    LET q == SkipWs(src, e.p)
    IN IF ~e.ok \/ q > Len(src) THEN ParseFail
       ELSE Only({ IF src[q] = "}" THEN ParseOk(Obj(more), q + 1)
                   ELSE IF src[q] = "," THEN ParseMembers(src, q + 1, more)
                   ELSE ParseFail :
                   more \in { Append(acc, <<key, e.v>>) } })

ParseValue(src, p0) ==
    Only({
       IF p > Len(src) THEN ParseFail
       ELSE IF src[p] = "{" THEN
            LET q == SkipWs(src, p + 1)
            IN IF q <= Len(src) /\ src[q] = "}" THEN ParseOk(Obj(<<>>), q + 1)
               ELSE ParseMembers(src, p + 1, <<>>)
       ELSE IF src[p] = "[" THEN
            LET q == SkipWs(src, p + 1)
            IN IF q <= Len(src) /\ src[q] = "]" THEN ParseOk(Arr(<<>>), q + 1)
               ELSE ParseElements(src, p + 1, <<>>)
       ELSE IF src[p] = "\"" THEN ParseString(src, p)
       ELSE IF IsDigit(src[p]) THEN ParseNumber(src, p)
       ELSE IF StartsAt(src, p, <<"n", "u", "l", "l">>) THEN ParseOk(Null, p + 4)
       ELSE IF StartsAt(src, p, <<"t", "r", "u", "e">>) THEN ParseOk(Bool(TRUE), p + 4)
       ELSE IF StartsAt(src, p, <<"f", "a", "l", "s", "e">>) THEN ParseOk(Bool(FALSE), p + 5)
       ELSE ParseFail :
       p \in { SkipWs(src, p0) } })

\* the whole text must be one value
WholeText(text, r) ==
    IF r.ok /\ SkipWs(text, r.p) = Len(text) + 1
    THEN [ok |-> TRUE, v |-> r.v]
    ELSE [ok |-> FALSE, v |-> Undefined]

\* JSON.parse(text): [ok, v]; ok = FALSE when it throws SyntaxError
JSONParse(text) ==
    Only({ Only({ WholeText(src, r) : r \in { ParseValue(src, 1) } }) : src \in { text } })

\* ------------------------------------------------------------------------
\* The lenient comparison  x == 503
\* ------------------------------------------------------------------------

RECURSIVE NumberToString(_)
NumberToString(n) ==
    IF n < 10 THEN <<Digits[n + 1]>>
    ELSE Append(NumberToString(n \div 10), Digits[(n % 10) + 1])

RECURSIVE ToStringJs(_)
RECURSIVE JoinElements(_, _)

\* Array.prototype.join(","): null and undefined elements give ""
JoinElements(a, k) ==
    IF k > Len(a) THEN <<>>
    ELSE (IF k > 1 THEN <<",">> ELSE <<>>)
         \o (IF a[k].t \in {"null", "undefined"} THEN <<>> ELSE ToStringJs(a[k]))
         \o JoinElements(a, k + 1)

\* String(v)
ToStringJs(v) ==
    CASE v.t = "string" -> v.s
      [] v.t = "number" -> NumberToString(v.n)
      [] v.t = "array" -> JoinElements(v.a, 1)
      [] v.t = "object" ->
           <<"[", "o", "b", "j", "e", "c", "t", " ", "O", "b", "j", "e", "c", "t", "]">>
      [] v.t = "null" -> <<"n", "u", "l", "l">>
      [] v.t = "true" -> <<"t", "r", "u", "e">>
      [] v.t = "false" -> <<"f", "a", "l", "s", "e">>
      [] OTHER -> <<"u", "n", "d", "e", "f", "i", "n", "e", "d">>

RECURSIVE TrimEnd(_)
TrimEnd(s) ==
    IF Len(s) > 0 /\ s[Len(s)] = " " THEN TrimEnd(SubSeq(s, 1, Len(s) - 1)) ELSE s

\* Number(s) for a string of decimal digits between optional spaces;
\* -1 stands for NaN (any other text)
StringToNumber(s) ==
    LET p == SkipWs(s, 1)
        t == TrimEnd(SubSeq(s, p, Len(s)))
    IN IF t = <<>> THEN 0
       ELSE IF \A k \in 1..Len(t) : IsDigit(t[k]) THEN DecimalValue(t, 1, Len(t) + 1)
       ELSE -1

\* v == 503
LooseEquals503(v) ==
    CASE v.t = "number" -> v.n = 503
      [] v.t = "string" -> StringToNumber(v.s) = 503
      [] v.t \in {"array", "object"} -> StringToNumber(ToStringJs(v)) = 503
      [] OTHER -> FALSE

\* ------------------------------------------------------------------------
\* isRetryableError
\* ------------------------------------------------------------------------

K_message == <<"m", "e", "s", "s", "a", "g", "e">>

K_error == <<"e", "r", "r", "o", "r">>

K_code == <<"c", "o", "d", "e">>

S_503 == <<"5", "0", "3">>

S_overloaded == <<"o", "v", "e", "r", "l", "o", "a", "d", "e", "d">>

\* a classifier that applies the substring test to every message
RetryableMessageAlwaysFallback(message, parsed) ==
    \/ parsed.ok /\ LooseEquals503(GetField(GetField(parsed.v, K_error), K_code))
    \/ Includes(message, S_503)
    \/ Includes(message, S_overloaded)

\* the body of isRetryableError for an error whose message is a string
RetryableMessage(message, parsed) ==
    IF parsed.ok
    THEN LooseEquals503(GetField(GetField(parsed.v, K_error), K_code))
    ELSE Includes(message, S_503) \/ Includes(message, S_overloaded)

\* isRetryableError without the substring test of its catch branch
IsRetryableErrorNoFallback(err) ==
    /\ IsObject(err)
    /\ HasField(err, K_message)
    /\ GetField(err, K_message).t = "string"
    /\ JSONParse(GetField(err, K_message).s).ok
    /\ LooseEquals503(GetField(GetField(JSONParse(GetField(err, K_message).s).v,
                                         K_error), K_code))

IsRetryableError(err) ==
    IF /\ IsObject(err)
       /\ HasField(err, K_message)
       /\ GetField(err, K_message).t = "string"
    THEN LET message == GetField(err, K_message).s
         IN Only({ RetryableMessage(message, parsed) : parsed \in { JSONParse(message) } })
    ELSE FALSE

\* ------------------------------------------------------------------------
\* Errors the module raises
\* ------------------------------------------------------------------------

\* new Error(msg); the provider SDK's error objects have the same shape.
\* A character outside ASCII is written as the one-element string "uXXXX" of
\* its code point, so the Japanese messages keep their characters.
ErrorWith(msg) == Obj(<< <<K_message, Str(msg)>> >>)

\* "The API key is not set. Set API_KEY in the environment variables."
ApiKeyError ==
    ErrorWith(<<"A", "P", "I", "u30ad", "u30fc", "u304c", "u8a2d", "u5b9a", "u3055", "u308c",
            "u3066", "u3044", "u307e", "u305b", "u3093", "u3002", "u74b0", "u5883", "u5909",
            "u6570", "u306b", "A", "P", "I", "_", "K", "E", "Y", "u3092", "u8a2d", "u5b9a",
            "u3057", "u3066", "u304f", "u3060", "u3055", "u3044", "u3002">>)

\* "The AI could not generate a story."
StoryInvalidError == ErrorWith(<<"A", "I", "u304c", "u7269", "u8a9e", "u3092", "u751f",
        "u6210", "u3067", "u304d", "u307e", "u305b", "u3093", "u3067", "u3057", "u305f",
        "u3002">>)

\* "Story generation failed. The AI may be busy, please try again later."
StoryFailedError ==
    ErrorWith(<<"u7269", "u8a9e", "u306e", "u751f", "u6210", "u306b", "u5931", "u6557",
            "u3057", "u307e", "u3057", "u305f", "u3002", "A", "I", "u304c", "u6df7", "u307f",
            "u5408", "u3063", "u3066", "u3044", "u308b", "u53ef", "u80fd", "u6027", "u304c",
            "u3042", "u308b", "u305f", "u3081", "u3001", "u3057", "u3070", "u3089", "u304f",
            "u3057", "u3066", "u304b", "u3089", "u3082", "u3046", "u4e00", "u5ea6", "u304a",
            "u8a66", "u3057", "u304f", "u3060", "u3055", "u3044", "u3002">>)

\* "Story generation failed. The AI did not respond."
StoryNoResponseError == ErrorWith(<<"u7269", "u8a9e", "u306e", "u751f", "u6210", "u306b",
        "u5931", "u6557", "u3057", "u307e", "u3057", "u305f", "u3002", "A", "I", "u304c",
        "u5fdc", "u7b54", "u3057", "u307e", "u305b", "u3093", "u3067", "u3057", "u305f",
        "u3002">>)

\* "Story generation failed."
StoryEmptyError == ErrorWith(<<"u7269", "u8a9e", "u306e", "u751f", "u6210", "u306b", "u5931",
        "u6557", "u3057", "u307e", "u3057", "u305f", "u3002">>)

\* "An error occurred while generating page <i+1>. The AI may be busy."
PageFailedError(i) ==
    ErrorWith(<<"u30da", "u30fc", "u30b8", " ">> \o NumberToString(i + 1)
              \o <<" ", "u306e", "u751f", "u6210", "u4e2d", "u306b", "u30a8", "u30e9",
                      "u30fc", "u304c", "u767a", "u751f", "u3057", "u307e", "u3057", "u305f",
                      "u3002", "A", "I", "u304c", "u6df7", "u307f", "u5408", "u3063",
                      "u3066", "u3044", "u308b", "u53ef", "u80fd", "u6027", "u304c", "u3042",
                      "u308a", "u307e", "u3059", "u3002">>)

\* "Generating page <i+1> failed several times."
PageRepeatedlyFailedError(i) ==
    ErrorWith(<<"u30da", "u30fc", "u30b8", " ">> \o NumberToString(i + 1) \o <<" ", "u306e",
            "u751f", "u6210", "u306b", "u8907", "u6570", "u56de", "u5931", "u6557", "u3057",
            "u307e", "u3057", "u305f", "u3002">>)

\* "The regeneration returned no valid image part."
RegenNoImageError == ErrorWith(<<"u753b", "u50cf", "u306e", "u518d", "u751f", "u6210",
        "u3067", "u6709", "u52b9", "u306a", "u753b", "u50cf", "u90e8", "u5206", "u304c",
        "u8fd4", "u3055", "u308c", "u307e", "u305b", "u3093", "u3067", "u3057", "u305f",
        "u3002">>)

\* "Image regeneration failed. The AI may be busy, please try again later."
RegenFailedError ==
    ErrorWith(<<"u753b", "u50cf", "u306e", "u518d", "u751f", "u6210", "u306b", "u5931",
            "u6557", "u3057", "u307e", "u3057", "u305f", "u3002", "A", "I", "u304c", "u6df7",
            "u307f", "u5408", "u3063", "u3066", "u3044", "u308b", "u53ef", "u80fd", "u6027",
            "u304c", "u3042", "u308b", "u305f", "u3081", "u3001", "u3057", "u3070", "u3089",
            "u304f", "u3057", "u3066", "u304b", "u3089", "u3082", "u3046", "u4e00", "u5ea6",
            "u304a", "u8a66", "u3057", "u304f", "u3060", "u3055", "u3044", "u3002">>)

\* "Image regeneration failed. The AI did not respond."
RegenNoResponseError == ErrorWith(<<"u753b", "u50cf", "u306e", "u518d", "u751f", "u6210",
        "u306b", "u5931", "u6557", "u3057", "u307e", "u3057", "u305f", "u3002", "A", "I",
        "u304c", "u5fdc", "u7b54", "u3057", "u307e", "u305b", "u3093", "u3067", "u3057",
        "u305f", "u3002">>)

\* what the JavaScript engine raises on  undefined.find(...) / null.pages
TypeErrorOf(what) ==
    ErrorWith(<<"C", "a", "n", "n", "o", "t", " ", "r", "e", "a", "d", " ", "p", "r", "o",
            "p", "e", "r", "t", "i", "e", "s", " ", "o", "f", " ">> \o what)

\* JSON.parse's SyntaxError for `text`. Engines differ in the message: some
\* quote the offending source text in it, some only name a position.
SyntaxErrorOf(text, echoes) ==
    ErrorWith(IF echoes
              THEN <<"U", "n", "e", "x", "p", "e", "c", "t", "e", "d", " ", "t", "o", "k",
                      "e", "n", ",", " ", "\"">> \o text \o <<"\"", " ", "i", "s", " ", "n",
                      "o", "t", " ", "v", "a", "l", "i", "d", " ", "J", "S", "O", "N">>
              ELSE <<"U", "n", "e", "x", "p", "e", "c", "t", "e", "d", " ", "t", "o", "k",
                      "e", "n", " ", "i", "n", " ", "J", "S", "O", "N", " ", "a", "t", " ",
                      "p", "o", "s", "i", "t", "i", "o", "n", " ", "0">>)

\* FileReader's onerror event, passed to reject() as it is
ReaderErrorEvent == Obj(<< <<<<"t", "y", "p", "e">>, Str(<<"e", "r", "r", "o", "r">>)>> >>)

\* ------------------------------------------------------------------------
\* What the provider can answer
\* ------------------------------------------------------------------------

E_Json503 == ErrorWith(<<"{", "\"", "e", "r", "r", "o", "r", "\"", ":", "{", "\"", "c", "o",
        "d", "e", "\"", ":", "5", "0", "3", "}", "}">>)

E_Json503String == ErrorWith(<<"{", "\"", "e", "r", "r", "o", "r", "\"", ":", " ", "{", "\"",
        "c", "o", "d", "e", "\"", ":", " ", "\"", "5", "0", "3", "\"", "}", "}">>)

E_Overloaded == ErrorWith(<<"S", "e", "r", "v", "i", "c", "e", " ", "o", "v", "e", "r", "l",
        "o", "a", "d", "e", "d", ",", " ", "r", "e", "t", "r", "y", " ", "l", "a", "t", "e",
        "r">>)

E_Http503 == ErrorWith(<<"H", "T", "T", "P", " ", "5", "0", "3">>)

E_InvalidArgument == ErrorWith(<<"i", "n", "v", "a", "l", "i", "d", " ", "a", "r", "g", "u",
        "m", "e", "n", "t">>)

\* parses as JSON (the number 503), so the substring test is never reached
E_Bare503 == ErrorWith(<<"5", "0", "3">>)

\* parses as JSON, code 429, with the word overloaded in its text
E_Json429 == ErrorWith(<<"{", "\"", "e", "r", "r", "o", "r", "\"", ":", "{", "\"", "c", "o",
        "d", "e", "\"", ":", "4", "2", "9", ",", "\"", "s", "t", "a", "t", "u", "s", "\"",
        ":", "\"", "o", "v", "e", "r", "l", "o", "a", "d", "e", "d", "\"", "}", "}">>)

E_NonStringMessage == Obj(<< <<K_message, Num(123)>> >>)

E_NoMessage == Obj(<<>>)

\* thrown values that are no objects: null, and the primitive string "503"
E_Null == Null

E_String503 == Str(S_503)

ProviderErrors ==
    { E_Json503, E_Json503String, E_Overloaded, E_Http503, E_InvalidArgument,
      E_Bare503, E_Json429, E_NonStringMessage, E_NoMessage, E_Null, E_String503 }

K_text == <<"t", "e", "x", "t">>

K_pages == <<"p", "a", "g", "e", "s">>

K_candidates == <<"c", "a", "n", "d", "i", "d", "a", "t", "e", "s">>

K_content == <<"c", "o", "n", "t", "e", "n", "t">>

K_parts == <<"p", "a", "r", "t", "s">>

K_inlineData == <<"i", "n", "l", "i", "n", "e", "D", "a", "t", "a">>

K_mimeType == <<"m", "i", "m", "e", "T", "y", "p", "e">>

K_data == <<"d", "a", "t", "a">>

\* the text of the k-th part of a story
TextOf(k) == <<"p">> \o NumberToString(k)

\* the pages arrays a story response can carry: 1..MaxParts texts, in
\* ascending or descending order of their numbers
StoryArrays ==
    UNION { { [k \in 1..n |-> TextOf(k)], [k \in 1..n |-> TextOf(n + 1 - k)] } :
              n \in 1..MaxParts }

RECURSIVE JoinQuoted(_, _)
JoinQuoted(arr, k) ==
    IF k > Len(arr) THEN <<>>
    ELSE (IF k > 1 THEN <<",">> ELSE <<>>) \o <<"\"">> \o arr[k] \o <<"\"">>
         \o JoinQuoted(arr, k + 1)

\* the text of a story response that carries the page texts arr
StoryJson(arr) == <<"{", "\"", "p", "a", "g", "e", "s", "\"", ":", "[">> \o JoinQuoted(arr,
        1) \o <<"]", "}">>

UnusableStoryTexts ==
    { <<"o", "o", "p", "s">>, <<"o", "v", "e", "r", "l", "o", "a", "d", "e", "d">>, <<"n",
            "u", "l", "l">>, <<"{", "}">>, <<"{", "\"", "p", "a", "g", "e", "s", "\"", ":",
            "5", "}">>, <<"{", "\"", "p", "a", "g", "e", "s", "\"", ":", "\"", "a", "b",
            "\"", "}">>,
      <<"{", "\"", "p", "a", "g", "e", "s", "\"", ":", "[", "]", "}">> }

\* a story response: an object whose text is one of the texts, or has no text
StoryResponses ==
    { Obj(<<>>) }
    \cup { Obj(<< <<K_text, Str(t)>> >>) :
             t \in UnusableStoryTexts \cup { StoryJson(arr) : arr \in StoryArrays } }

TextPart == Obj(<< <<K_text, Str(<<"o", "k">>)>> >>)

ImagePart(mimeType, data) ==
    Obj(<< <<K_inlineData,
             Obj(<< <<K_mimeType, Str(mimeType)>>, <<K_data, Str(data)>> >>)>> >>)

PngPart == ImagePart(<<"i", "m", "a", "g", "e", "/", "p", "n", "g">>, <<"A", "A", "A">>)

JpegPart == ImagePart(<<"i", "m", "a", "g", "e", "/", "j", "p", "e", "g">>, <<"B", "B", "B">>)

ResponseOfParts(parts) ==
    Obj(<< <<K_candidates,
             Arr(<< Obj(<< <<K_content, Obj(<< <<K_parts, Arr(parts)>> >>)>> >>) >>)>> >>)

\* no candidates field; an empty candidates list; a candidate without content
R_NoCandidates == Obj(<<>>)

R_EmptyCandidates == Obj(<< <<K_candidates, Arr(<<>>)>> >>)

R_NoContent == Obj(<< <<K_candidates, Arr(<< Obj(<<>>) >>)>> >>)

\* a candidate whose content has no parts field
R_NoParts == Obj(<< <<K_candidates, Arr(<< Obj(<< <<K_content, Obj(<<>>)>> >>) >>)>> >>)

R_TextOnly == ResponseOfParts(<< TextPart >>)

R_Png == ResponseOfParts(<< TextPart, PngPart >>)

R_JpegThenPng == ResponseOfParts(<< JpegPart, PngPart >>)

ImageResponses ==
    { R_NoCandidates, R_EmptyCandidates, R_NoContent, R_NoParts,
      ResponseOfParts(<<>>), R_TextOnly, R_Png, R_JpegThenPng }

\* what one provider request ends with: a thrown value or a response
Thrown(e) == [kind |-> "throw", value |-> e]

Response(r) == [kind |-> "response", value |-> r]

StoryOutcomes ==
    { Thrown(e) : e \in ProviderErrors } \cup { Response(r) : r \in StoryResponses }

ImageOutcomes ==
    { Thrown(e) : e \in ProviderErrors } \cup { Response(r) : r \in ImageResponses }

\* one outcome of each kind, for runs fed from a fixed sequence
FeedOutcomes ==
    { Thrown(E_Json503), Thrown(E_InvalidArgument), Response(R_TextOnly),
      Response(R_NoParts), Response(R_Png), Response(R_JpegThenPng) }

\* ------------------------------------------------------------------------
\* The bodies of the try blocks
\* ------------------------------------------------------------------------

\* if (x) ...
Truthy(v) ==
    CASE v.t \in {"undefined", "null", "false"} -> FALSE
      [] v.t = "number" -> v.n # 0
      [] v.t = "string" -> v.s # <<>>
      [] OTHER -> TRUE

Returns(v) == [kind |-> "return", value |-> v]

\* generateStory, the try block after the request: JSON.parse(response.text),
\* then the check of result.pages
ParseStory(response, echoes) ==
    LET text == ToStringJs(GetField(response, K_text))
    IN Only({
         LET result == parsed.v
             pagesField == GetField(result, K_pages)
         IN IF ~parsed.ok THEN Thrown(SyntaxErrorOf(text, echoes))
            ELSE IF result.t = "null"
                 THEN Thrown(TypeErrorOf(<<"n", "u", "l", "l", " ", "(", "r", "e", "a", "d",
                         "i", "n", "g", " ", "'", "p", "a", "g", "e", "s", "'", ")">>))
            ELSE IF Truthy(pagesField) /\ pagesField.t = "array" /\ Len(pagesField.a) > 0
                 THEN Returns(pagesField)
            ELSE Thrown(StoryInvalidError) :
         parsed \in { JSONParse(text) } })

\* a search that takes the last part with inline data instead of the first
FindLastImagePart(response) ==
    LET candidates == GetField(response, K_candidates)
        first == IF candidates.t = "array" /\ Len(candidates.a) > 0
                 THEN candidates.a[1] ELSE Undefined
    IN Only({
         IF content.t \in {"undefined", "null"} THEN Returns(Undefined)
         ELSE Only({
                IF parts.t # "array"
                THEN Thrown(TypeErrorOf(<<"u", "n", "d", "e", "f", "i", "n", "e", "d", " ",
                        "(", "r", "e", "a", "d", "i", "n", "g", " ", "'", "f", "i", "n", "d",
                        "'", ")">>))
                ELSE IF \E k \in 1..Len(parts.a) :
                            Truthy(GetField(parts.a[k], K_inlineData))
                     THEN Returns(parts.a[CHOOSE k \in 1..Len(parts.a) :
                            /\ Truthy(GetField(parts.a[k], K_inlineData))
                            /\ \A j \in (k + 1)..Len(parts.a) :
                                   ~Truthy(GetField(parts.a[j], K_inlineData))])
                ELSE Returns(Undefined) :
                parts \in { GetField(content, K_parts) } }) :
         content \in { GetField(first, K_content) } })

\* response.candidates?.[0]?.content?.parts.find(part => part.inlineData)
FindImagePart(response) ==
    LET candidates == GetField(response, K_candidates)
        first == IF candidates.t = "array" /\ Len(candidates.a) > 0
                 THEN candidates.a[1] ELSE Undefined
    IN Only({
         IF content.t \in {"undefined", "null"} THEN Returns(Undefined)
         ELSE Only({
                IF parts.t # "array"
                THEN Thrown(TypeErrorOf(<<"u", "n", "d", "e", "f", "i", "n", "e", "d", " ",
                        "(", "r", "e", "a", "d", "i", "n", "g", " ", "'", "f", "i", "n", "d",
                        "'", ")">>))
                ELSE IF \E k \in 1..Len(parts.a) :
                            Truthy(GetField(parts.a[k], K_inlineData))
                     THEN Returns(parts.a[CHOOSE k \in 1..Len(parts.a) :
                            /\ Truthy(GetField(parts.a[k], K_inlineData))
                            /\ \A j \in 1..(k - 1) :
                                   ~Truthy(GetField(parts.a[j], K_inlineData))])
                ELSE Returns(Undefined) :
                parts \in { GetField(content, K_parts) } }) :
         content \in { GetField(first, K_content) } })

\* imagePart && imagePart.inlineData
HasImage(imagePart) == Truthy(imagePart) /\ Truthy(GetField(imagePart, K_inlineData))

\* `data:${imagePart.inlineData.mimeType};base64,${imagePart.inlineData.data}`
DataUrl(imagePart) ==
    LET inlineData == GetField(imagePart, K_inlineData)
    IN <<"d", "a", "t", "a", ":">> \o ToStringJs(GetField(inlineData, K_mimeType))
       \o <<";", "b", "a", "s", "e", "6", "4", ",">> \o ToStringJs(GetField(inlineData, K_data))

\* a retry decision that does not ask the classifier
ShouldRetryAnyError(err, attempt) == attempt < MAX_RETRIES - 1

\* isRetryableError(error) && attempt < MAX_RETRIES - 1
ShouldRetry(err, attempt) == IsRetryableError(err) /\ attempt < MAX_RETRIES - 1

\* a delay that does not grow
BackoffDelayFlat(attempt) == INITIAL_DELAY_MS

\* INITIAL_DELAY_MS * 2 ** attempt
BackoffDelay(attempt) == INITIAL_DELAY_MS * 2^attempt

\* ------------------------------------------------------------------------
\* State
\* ------------------------------------------------------------------------

VARIABLES
    apiKey,                 \* process.env.API_KEY is set (fixed by the build)
    jsonErrorEchoesSource,  \* the engine's SyntaxError messages quote the text
    ai,                     \* the module's cached client: TRUE once constructed
    book,                   \* the running generatePictureBook call
    regen,                  \* the running regeneratePageImage call
    step,                   \* App: the step shown ("Input", "Loading", "Preview")
    bookPages,              \* App: the pages of the book shown
    error,                  \* App: the error message shown, or null
    regeneratingPageId,     \* BookPreview: the page marked as regenerating
    form,                   \* App: title, theme and the number of characterImages
    feed,                   \* fed runs: the outcomes of the requests, in order
    calls,                  \* preview runs: the handleRegenerate calls under way
    probe                   \* classifier runs: the value handed to isRetryableError

vars ==
    <<apiKey, jsonErrorEchoesSource, ai, book, regen, step, bookPages, error,
      regeneratingPageId, form, feed, calls, probe>>

env == <<apiKey, jsonErrorEchoesSource, feed, probe>>

ui == <<step, bookPages, error, regeneratingPageId>>

\* an entry of a call's log: a request issued, the way an attempt ended
\* ("error": the provider threw, "unusable": a response without a usable
\* payload, "usable", "config": no client), the classification made by the
\* catch block ("retryable", "not_retryable"), or a backoff wait of ms
Ev(e, ms) == [e |-> e, ms |-> ms]

Log(c, e, ms) == [c EXCEPT !.log = Append(@, Ev(e, ms))]

\* the story request is target -1, the request for page i is target i
StoryTarget == -1

IdleBook ==
    [ pc |-> "idle", numPages |-> 0, attempt |-> 0, i |-> 0,
      storyParts |-> <<>>, originalImages |-> <<>>, pages |-> <<>>,
      pageGenerated |-> FALSE,
      result |-> <<>>,          \* the pages the call resolved with
      error |-> Undefined,      \* the value the call rejected with
      caught |-> Undefined,     \* the error of the catch block that ran last
      classified |-> FALSE,     \* what isRetryableError said of it
      log |-> <<>>,             \* the events of the operation under way
      issued |-> <<>>,          \* the targets of all requests of the call
      outstanding |-> 0,        \* requests awaiting their response
      clientCalls |-> 0,        \* calls of getAiInstance
      keyReads |-> 0,           \* of these, the calls that read the API key
      handlesMade |-> 0 ]       \* and the clients they constructed

IdleRegen ==
    [ pc |-> "idle", pageId |-> 0, storyPart |-> Undefined,
      originalImages |-> <<>>, attempt |-> 0,
      result |-> Undefined,     \* the image URL the call resolved with
      error |-> Undefined, caught |-> Undefined, classified |-> FALSE,
      log |-> <<>>, issued |-> 0, outstanding |-> 0, clientCalls |-> 0,
      keyReads |-> 0, handlesMade |-> 0,
      stale |-> FALSE ]         \* handleRestart ran after the call began

\* filesToOriginalImages(characterImages) for the one uploaded drawing
ConvertedImages == << [base64 |-> <<"Q", "U", "J", "D">>, mimeType |-> <<"i", "m", "a", "g",
        "e", "/", "p", "n", "g">>] >>

\* the form as handleRestart leaves it, and with title, theme and a drawing
EmptyForm == [title |-> <<>>, theme |-> <<>>, characterImages |-> 0]

FilledForm == [title |-> <<"t">>, theme |-> <<"t">>, characterImages |-> 1]

\* no value is under classification
NoProbe == [value |-> Undefined, done |-> FALSE, retryable |-> FALSE]

Init ==
    /\ apiKey \in BOOLEAN
    /\ jsonErrorEchoesSource \in BOOLEAN
    /\ ai = FALSE
    /\ book = IdleBook
    /\ regen = IdleRegen
    /\ step = "Input"
    /\ bookPages = <<>>
    /\ error = Null
    /\ regeneratingPageId = Null
    /\ feed = <<>>
    /\ calls = <<>>
    /\ probe = NoProbe
    /\ form = FilledForm

\* an accessor that constructs the client without looking at the key
GetAiInstanceNoCheck(cached, key) ==
    [ok |-> TRUE, ai |-> TRUE, read |-> ~cached, made |-> ~cached]

\* an accessor that reads the key and constructs a client at every call
GetAiInstanceNoCache(cached, key) ==
    [ok |-> key, ai |-> key, read |-> TRUE, made |-> key]

\* getAiInstance(): the cached client, or a new one when the key is set;
\* ok = FALSE when it throws, read = it read process.env.API_KEY,
\* made = it constructed a client
GetAiInstance(cached, key) ==
    [ok |-> cached \/ key, ai |-> cached \/ key,
     read |-> ~cached, made |-> ~cached /\ key]

\* the call frame c after its call of getAiInstance
Accessed(c, client) ==
    [c EXCEPT !.clientCalls = @ + 1,
              !.keyReads = @ + (IF client.read THEN 1 ELSE 0),
              !.handlesMade = @ + (IF client.made THEN 1 ELSE 0)]

\* the request is sent and the call suspends at its await
Issue(c, target, pc) ==
    [Log(c, "request", 0) EXCEPT !.issued = Append(@, target),
                                  !.outstanding = @ + 1,
                                  !.pc = pc]

\* the catch block records its error and what the classifier says of it
Catch(c, err) ==
    Log([c EXCEPT !.caught = err, !.classified = IsRetryableError(err)],
        IF IsRetryableError(err) THEN "retryable" ELSE "not_retryable", 0)

\* a loop condition that is off by one:  attempt <= MAX_RETRIES
LoopEndedLate(attempt) == attempt > MAX_RETRIES

\* the attempt loops end when  attempt < MAX_RETRIES  fails
LoopEnded(attempt) == attempt >= MAX_RETRIES

\* await sleep(INITIAL_DELAY_MS * 2 ** attempt)
Sleep(c, pc) == [Log(c, "wait", BackoffDelay(c.attempt)) EXCEPT !.pc = pc]

\* an error that is recorded while the function goes on
RejectAndGoOn(c, err) == [c EXCEPT !.error = err]

\* the call rejects with err
Reject(c, err) == [c EXCEPT !.pc = "failed", !.error = err]

\* ------------------------------------------------------------------------
\* generateStory
\* ------------------------------------------------------------------------

\* the catch block of generateStory
StoryCatch(b, err) ==
    IF ShouldRetry(err, b.attempt)
    THEN Sleep(Catch(b, err), "story_sleep")
    ELSE Reject(Catch(b, err), StoryFailedError)

\* the head of generateStory's loop and the try block up to the request
StoryBegin(b, client) ==
    IF LoopEnded(b.attempt) THEN Reject(b, StoryNoResponseError)
    ELSE LET c == Accessed(b, client)
         IN IF ~client.ok THEN StoryCatch(Log(c, "config", 0), ApiKeyError)
            ELSE Issue(c, StoryTarget, "story_await")

\* generatePictureBook after generateStory returned: the check of the length,
\* then the conversion of the uploaded files starts
StoryDone(b, parts) ==
    IF Len(parts) = 0 THEN Reject(b, StoryEmptyError)
    ELSE [b EXCEPT !.storyParts = parts, !.pc = "convert_await"]

\* the story request ended with outcome o
StoryRespondTo(b, o, echoes) ==
    LET c == [b EXCEPT !.outstanding = @ - 1]
    IN IF o.kind = "throw" THEN StoryCatch(Log(c, "error", 0), o.value)
       ELSE Only({ IF r.kind = "throw" THEN StoryCatch(Log(c, "unusable", 0), r.value)
                   ELSE StoryDone(Log(c, "usable", 0), r.value.a) :
                   r \in { ParseStory(o.value, echoes) } })

\* ------------------------------------------------------------------------
\* generatePictureBook: the loop over the story parts
\* ------------------------------------------------------------------------

\* const newPage = { id, text, imageUrl, originalImages }
NewPage(i, storyPart, imagePart, originalImages) ==
    [ id |-> i, text |-> storyPart, imageUrl |-> DataUrl(imagePart),
      originalImages |-> originalImages ]

\* the page loop without its check of pageGenerated
PageMissingNever(pageGenerated) == FALSE

\* if (!pageGenerated)
PageMissing(pageGenerated) == ~pageGenerated

\* a loop that steps over every other page
NextPageIndexSkipping(i) == i + 2

\* i++
NextPageIndex(i) == i + 1

\* the catch block of the page loop
PageCatch(b, err) ==
    IF ShouldRetry(err, b.attempt)
    THEN Sleep(Catch(b, err), "page_sleep")
    ELSE Reject(Catch(b, err), PageFailedError(b.i))

RECURSIVE PageLoop(_, _)
RECURSIVE PageBegin(_, _)
RECURSIVE PageAfterLoop(_, _)

\* the head of the loop over the pages: the next page, or return pages
PageLoop(b, client) ==
    IF b.i < Len(b.storyParts)
    THEN PageBegin([b EXCEPT !.attempt = 0, !.pageGenerated = FALSE, !.log = <<>>],
                   client)
    ELSE [b EXCEPT !.pc = "returned", !.result = b.pages]

\* the head of the attempt loop of page i and the try block up to the request
PageBegin(b, client) ==
    IF LoopEnded(b.attempt) THEN PageAfterLoop(b, client)
    ELSE LET c == Accessed(b, client)
         IN IF ~client.ok THEN PageCatch(Log(c, "config", 0), ApiKeyError)
            ELSE Issue(c, b.i, "page_await")

\* after the attempt loop of page i
PageAfterLoop(b, client) ==
    IF PageMissing(b.pageGenerated) THEN Reject(b, PageRepeatedlyFailedError(b.i))
    ELSE PageLoop([b EXCEPT !.i = NextPageIndex(@)], client)

\* the request for page i ended with outcome o
PageRespondTo(b, o, client) ==
    LET c == [b EXCEPT !.outstanding = @ - 1]
    IN IF o.kind = "throw" THEN PageCatch(Log(c, "error", 0), o.value)
       ELSE Only({
              IF r.kind = "throw" THEN PageCatch(Log(c, "unusable", 0), r.value)
              ELSE IF HasImage(r.value)
                   THEN Only({ PageAfterLoop(d, client) :
                               d \in { [Log(c, "usable", 0) EXCEPT
                                          !.pages = Append(@, NewPage(b.i,
                                                                      b.storyParts[b.i + 1],
                                                                      r.value,
                                                                      b.originalImages)),
                                          !.pageGenerated = TRUE] } })
              ELSE PageBegin([Log(c, "unusable", 0) EXCEPT !.attempt = @ + 1], client) :
              r \in { FindImagePart(o.value) } })

\* ------------------------------------------------------------------------
\* regeneratePageImage
\* ------------------------------------------------------------------------

\* the catch block of regeneratePageImage
RegenCatch(r, err) ==
    IF ShouldRetry(err, r.attempt)
    THEN Sleep(Catch(r, err), "regen_sleep")
    ELSE Reject(Catch(r, err), RegenFailedError)

\* the head of the loop and the try block up to the request
RegenBegin(r, client) ==
    IF LoopEnded(r.attempt) THEN Reject(r, RegenNoResponseError)
    ELSE LET c == Accessed(r, client)
         IN IF ~client.ok THEN RegenCatch(Log(c, "config", 0), ApiKeyError)
            ELSE [Log(c, "request", 0) EXCEPT !.issued = @ + 1,
                                              !.outstanding = @ + 1,
                                              !.pc = "regen_await"]

\* the regeneration request ended with outcome o
RegenRespondTo(r, o) ==
    LET c == [r EXCEPT !.outstanding = @ - 1]
    IN IF o.kind = "throw" THEN RegenCatch(Log(c, "error", 0), o.value)
       ELSE Only({
              IF found.kind = "throw"
              THEN RegenCatch(Log(c, "unusable", 0), found.value)
              ELSE IF HasImage(found.value)
                   THEN [Log(c, "usable", 0) EXCEPT !.pc = "returned",
                                                    !.result = Str(DataUrl(found.value))]
              ELSE RegenCatch(Log(c, "unusable", 0), RegenNoImageError) :
              found \in { FindImagePart(o.value) } })

\* ------------------------------------------------------------------------
\* App and BookPreview
\* ------------------------------------------------------------------------

\* "Could not generate the pages of the book. Please try again."
EmptyBookError ==
    ErrorWith(<<"u7d75", "u672c", "u306e", "u30da", "u30fc", "u30b8", "u3092", "u751f",
            "u6210", "u3067", "u304d", "u307e", "u305b", "u3093", "u3067", "u3057", "u305f",
            "u3002", "u3082", "u3046", "u4e00", "u5ea6", "u8a66", "u3057", "u3066", "u304f",
            "u3060", "u3055", "u3044", "u3002">>)

\* an update that does not compare the ids
UpdateEveryPageImage(prevPages, pageId, newImageUrl) ==
    [k \in 1..Len(prevPages) |-> [prevPages[k] EXCEPT !.imageUrl = newImageUrl]]

\* handleUpdatePageImage: prevPages.map(page =>
\*     page.id === pageId ? { ...page, imageUrl: newImageUrl } : page)
UpdatePageImage(prevPages, pageId, newImageUrl) ==
    [k \in 1..Len(prevPages) |->
        IF prevPages[k].id = pageId
        THEN [prevPages[k] EXCEPT !.imageUrl = newImageUrl]
        ELSE prevPages[k]]

\* a handler that passes on whatever the call left behind
PagesAfterRegenAlways(prevPages, r) == UpdatePageImage(prevPages, r.pageId, r.result.s)

\* handleRegenerate after regeneratePageImage settled: onUpdatePageImage in the
\* try block when it resolved, nothing but the alert when it rejected
PagesAfterRegen(prevPages, r) ==
    IF r.pc = "returned"
    THEN UpdatePageImage(prevPages, r.pageId, r.result.s)
    ELSE prevPages

\* a handler that clears the mark in its try block only
MarkAfterRegenSucceeded(marked, r) == IF r.pc = "returned" THEN Null ELSE marked

\* handleRegenerate's finally block: setRegeneratingPageId(null), whether
\* regeneratePageImage resolved or rejected
MarkAfterRegen(marked, r) == Null

\* ------------------------------------------------------------------------
\* Actions: each runs a call from one await to the next
\* ------------------------------------------------------------------------

\* what a step that may have called getAiInstance leaves in the cache
CacheAfter(before, after) ==
    IF after.clientCalls > before.clientCalls
    THEN GetAiInstance(ai, apiKey).ai
    ELSE ai

\* "Enter the title, the theme of the story and the drawings of the
\* characters."
InputsMissingError ==
    ErrorWith(<<"u30bf", "u30a4", "u30c8", "u30eb", "u3001", "u304a", "u306f", "u306a",
            "u3057", "u306e", "u30c6", "u30fc", "u30de", "u3001", "u30ad", "u30e3", "u30e9",
            "u30af", "u30bf", "u30fc", "u306e", "u7d75", "u3092", "u3059", "u3079", "u3066",
            "u5165", "u529b", "u3057", "u3066", "u304f", "u3060", "u3055", "u3044",
            "u3002">>)

\* a check that looks at the title alone
InputsMissingTitleOnly(f) == ~Truthy(Str(f.title))

\* !title || !theme || characterImages.length === 0
InputsMissing(f) ==
    \/ ~Truthy(Str(f.title))
    \/ ~Truthy(Str(f.theme))
    \/ f.characterImages = 0

\* handleCreateBook with title, theme and drawings present: the step becomes
\* Loading and generatePictureBook(theme, characterImages, style, numPages)
\* runs to its first await
BookStart ==
    /\ step = "Input"
    /\ book.pc = "idle"
    /\ ~InputsMissing(form)
    /\ \E n \in 1..MaxParts :
         book' = StoryBegin([book EXCEPT !.numPages = n], GetAiInstance(ai, apiKey))
    /\ ai' = CacheAfter(book, book')
    /\ error' = Null
    /\ step' = "Loading"
    /\ UNCHANGED <<env, form, calls, regen, bookPages, regeneratingPageId>>

StoryRespondWith(o) ==
    /\ book.pc = "story_await"
    /\ book' = StoryRespondTo(book, o, jsonErrorEchoesSource)
    /\ UNCHANGED <<env, form, calls, ai, regen, ui>>

\* the story request ends
StoryRespond == \E o \in StoryOutcomes : StoryRespondWith(o)

\* the backoff wait of generateStory is over: attempt++ and the next attempt
StoryWake ==
    /\ book.pc = "story_sleep"
    /\ book' = StoryBegin([book EXCEPT !.attempt = @ + 1, !.caught = Undefined,
                                        !.classified = FALSE],
                           GetAiInstance(ai, apiKey))
    /\ ai' = CacheAfter(book, book')
    /\ UNCHANGED <<env, form, calls, regen, ui>>

\* the FileReaders of filesToOriginalImages finish: all loaded, or one failed
ConvertDone ==
    /\ book.pc = "convert_await"
    /\ \E loaded \in BOOLEAN :
         book' = IF loaded
                 THEN PageLoop([book EXCEPT !.originalImages = ConvertedImages,
                                            !.pages = <<>>, !.i = 0],
                               GetAiInstance(ai, apiKey))
                 ELSE Reject(book, ReaderErrorEvent)
    /\ ai' = CacheAfter(book, book')
    /\ UNCHANGED <<env, form, calls, regen, ui>>

PageRespondWith(o) ==
    /\ book.pc = "page_await"
    /\ book' = PageRespondTo(book, o, GetAiInstance(ai, apiKey))
    /\ ai' = CacheAfter(book, book')
    /\ UNCHANGED <<env, form, calls, regen, ui>>

\* the request for a page image ends
PageRespond == \E o \in ImageOutcomes : PageRespondWith(o)

\* the backoff wait of the page loop is over
PageWake ==
    /\ book.pc = "page_sleep"
    /\ book' = PageBegin([book EXCEPT !.attempt = @ + 1, !.caught = Undefined,
                                       !.classified = FALSE],
                          GetAiInstance(ai, apiKey))
    /\ ai' = CacheAfter(book, book')
    /\ UNCHANGED <<env, form, calls, regen, ui>>

\* handleCreateBook after its await: the pages are shown, or the error is
BookSettled ==
    /\ book.pc \in {"returned", "failed"}
    /\ IF book.pc = "returned" /\ Len(book.result) > 0
       THEN /\ bookPages' = book.result
            /\ step' = "Preview"
            /\ error' = error
       ELSE /\ error' = IF book.pc = "returned" THEN EmptyBookError.o[1][2]
                         ELSE GetField(book.error, K_message)
            /\ step' = "Input"
            /\ bookPages' = bookPages
    /\ book' = IdleBook
    /\ UNCHANGED <<env, form, calls, ai, regen, regeneratingPageId>>

\* handleRegenerate(pageId) up to its await: the page is marked and
\* regeneratePageImage(page.text, page.originalImages, style) runs to its
\* first await
\* (the button of another page stays enabled while one page regenerates; the
\* model follows one regeneration at a time)
RegenStart ==
    /\ step = "Preview"
    /\ regen.pc = "idle"
    /\ \E k \in 1..Len(bookPages) :
         /\ regeneratingPageId' = Num(bookPages[k].id)
         /\ regen' = RegenBegin([IdleRegen EXCEPT
                                    !.pageId = bookPages[k].id,
                                    !.storyPart = bookPages[k].text,
                                    !.originalImages = bookPages[k].originalImages],
                                GetAiInstance(ai, apiKey))
    /\ ai' = CacheAfter(IdleRegen, regen')
    /\ UNCHANGED <<env, form, calls, book, step, bookPages, error>>

RegenRespondWith(o) ==
    /\ regen.pc = "regen_await"
    /\ regen' = RegenRespondTo(regen, o)
    /\ UNCHANGED <<env, form, calls, ai, book, ui>>

\* the regeneration request ends
RegenRespond == \E o \in ImageOutcomes : RegenRespondWith(o)

\* the backoff wait of regeneratePageImage is over
RegenWake ==
    /\ regen.pc = "regen_sleep"
    /\ regen' = RegenBegin([regen EXCEPT !.attempt = @ + 1, !.caught = Undefined,
                                         !.classified = FALSE],
                           GetAiInstance(ai, apiKey))
    /\ ai' = CacheAfter(regen, regen')
    /\ UNCHANGED <<env, form, calls, book, ui>>

\* handleRegenerate after its await: onUpdatePageImage(pageId, newImageUrl)
\* on success, the alert on failure, and the mark is cleared
RegenSettled ==
    /\ regen.pc \in {"returned", "failed"}
    /\ bookPages' = PagesAfterRegen(bookPages, regen)
    /\ regeneratingPageId' = MarkAfterRegen(regeneratingPageId, regen)
    /\ regen' = IdleRegen
    /\ UNCHANGED <<env, form, calls, ai, book, step, error>>

Next ==
    \/ BookStart
    \/ StoryRespond
    \/ StoryWake
    \/ ConvertDone
    \/ PageRespond
    \/ PageWake
    \/ BookSettled
    \/ RegenStart
    \/ RegenRespond
    \/ RegenWake
    \/ RegenSettled

Spec == Init /\ [][Next]_vars

\* ------------------------------------------------------------------------
\* Fed runs: the page loop of generatePictureBook, for a story of one part,
\* and regeneratePageImage for the same part and drawings run side by side,
\* as a test of the service module runs them; request k of either gets the
\* k-th outcome of one sequence of MAX_RETRIES outcomes.
\* ------------------------------------------------------------------------

Client == GetAiInstance(TRUE, TRUE)

\* generatePictureBook at the await of its first page request
BookAtFirstPage ==
    LET started == StoryBegin([IdleBook EXCEPT !.numPages = 1], Client)
        told == StoryRespondTo(started,
                               Response(Obj(<< <<K_text, Str(StoryJson(<<TextOf(1)>>))>> >>)),
                               FALSE)
    IN PageLoop([told EXCEPT !.originalImages = ConvertedImages], Client)

\* regeneratePageImage at the await of its first request
RegenAtFirstRequest ==
    RegenBegin([IdleRegen EXCEPT !.storyPart = Str(TextOf(1)),
                                 !.originalImages = ConvertedImages],
               Client)

FeedInit ==
    /\ apiKey = TRUE
    /\ jsonErrorEchoesSource = FALSE
    /\ ai = TRUE
    /\ feed \in [1..MAX_RETRIES -> FeedOutcomes]
    /\ book = BookAtFirstPage
    /\ regen = RegenAtFirstRequest
    /\ step = "Loading"
    /\ bookPages = <<>>
    /\ error = Null
    /\ regeneratingPageId = Null
    /\ calls = <<>>
    /\ probe = NoProbe
    /\ form = FilledForm

\* the page request ends as the feed says
FedPageRespond == PageRespondWith(feed[book.attempt + 1])

\* the regeneration request ends as the feed says
FedRegenRespond == RegenRespondWith(feed[regen.attempt + 1])

FeedNext ==
    \/ FedPageRespond
    \/ PageWake
    \/ FedRegenRespond
    \/ RegenWake

SpecFeed == FeedInit /\ [][FeedNext]_vars


\* ------------------------------------------------------------------------
\* Service runs: a caller that uses the two exported functions directly, one
\* call at a time: generatePictureBook through handleCreateBook, and
\* regeneratePageImage for a page text and drawings of its own, whatever the
\* application shows.
\* ------------------------------------------------------------------------

\* handleCreateBook while no regeneration is under way
ServiceBookCall == regen.pc = "idle" /\ BookStart

\* regeneratePageImage(storyPart, originalImages, style) up to its first await
RegenCall ==
    /\ regen.pc = "idle"
    /\ book.pc = "idle"
    /\ \E k \in 1..MaxParts :
         regen' = RegenBegin([IdleRegen EXCEPT !.storyPart = Str(TextOf(k)),
                                               !.originalImages = ConvertedImages],
                             GetAiInstance(ai, apiKey))
    /\ ai' = CacheAfter(IdleRegen, regen')
    /\ UNCHANGED <<env, form, calls, book, ui>>

\* the caller takes the URL or the error of the regeneration
RegenReturn ==
    /\ regen.pc \in {"returned", "failed"}
    /\ regen' = IdleRegen
    /\ UNCHANGED <<env, form, calls, ai, book, ui>>

ServiceNext ==
    \/ ServiceBookCall
    \/ StoryRespond
    \/ StoryWake
    \/ ConvertDone
    \/ PageRespond
    \/ PageWake
    \/ BookSettled
    \/ RegenCall
    \/ RegenRespond
    \/ RegenWake
    \/ RegenReturn

SpecService == Init /\ [][ServiceNext]_vars

\* ------------------------------------------------------------------------
\* Preview runs: BookPreview shows a book of two pages and the user clicks
\* the regenerate buttons in any order, also while earlier regenerations are
\* under way; up to MaxCalls handleRegenerate calls run at the same time.
\* The provider answers each request with a response or with an error that
\* is not retryable, so that every call makes one request (the attempt loop
\* of regeneratePageImage is followed in the other runs).
\* ------------------------------------------------------------------------

\* the handleRegenerate calls followed at the same time
MaxCalls == 2

\* the book shown: two pages as generatePictureBook builds them
PreviewBook ==
    << NewPage(0, Str(TextOf(1)), PngPart, ConvertedImages),
       NewPage(1, Str(TextOf(2)), PngPart, ConvertedImages) >>

\* a regeneratePageImage call without the record of its attempts
Untraced(r) ==
    [r EXCEPT !.log = <<>>, !.caught = Undefined, !.classified = FALSE,
              !.clientCalls = 0, !.keyReads = 0, !.handlesMade = 0, !.issued = 0]

\* what a request of a preview run ends with
PreviewOutcomes ==
    { Thrown(E_InvalidArgument), Response(R_TextOnly), Response(R_Png),
      Response(R_JpegThenPng) }

\* <Page isRegenerating={regeneratingPageId === page.id} />, and in Page
\* <button disabled={isRegenerating}>
ButtonDisabled(marked, pageId) == marked = Num(pageId)

\* an update computed from the pages the handler saw when it was called
PagesOfClosure(prevPages, closurePages) == closurePages

\* setBookPages(prevPages => ...): the update starts from the pages of the
\* moment it is applied, not from the pages the handler's closure holds
PagesToUpdate(prevPages, closurePages) == prevPages

RemoveAt(s, j) == SubSeq(s, 1, j - 1) \o SubSeq(s, j + 1, Len(s))

PreviewInit ==
    /\ apiKey = TRUE
    /\ jsonErrorEchoesSource = FALSE
    /\ ai = TRUE
    /\ book = IdleBook
    /\ regen = IdleRegen
    /\ step = "Preview"
    /\ bookPages = PreviewBook
    /\ error = Null
    /\ regeneratingPageId = Null
    /\ feed = <<>>
    /\ calls = <<>>
    /\ probe = NoProbe
    /\ form = FilledForm

\* a click on the regenerate button of the k-th page: handleRegenerate(page.id)
\* up to its await (n tells the calls under way apart: the least number that
\* none of them has; calls is kept in the order of these numbers)
ClickRegenerate(k) ==
    /\ step = "Preview"
    /\ Len(calls) < MaxCalls
    /\ ~ButtonDisabled(regeneratingPageId, bookPages[k].id)
    /\ regeneratingPageId' = Num(bookPages[k].id)
    /\ calls' = Only({
          SubSeq(calls, 1, n - 1)
          \o << [ n |-> n,
                  pageId |-> bookPages[k].id,
                  pages |-> bookPages,
                  r |-> Untraced(RegenBegin(
                            [IdleRegen EXCEPT
                                !.pageId = bookPages[k].id,
                                !.storyPart = bookPages[k].text,
                                !.originalImages = bookPages[k].originalImages],
                            Client)) ] >>
          \o SubSeq(calls, n, Len(calls)) :
          n \in { CHOOSE n \in 1..MaxCalls :
                     /\ \A j \in 1..Len(calls) : calls[j].n # n
                     /\ \A m \in 1..(n - 1) :
                            \E j \in 1..Len(calls) : calls[j].n = m } })
    /\ UNCHANGED <<env, form, ai, book, regen, step, bookPages, error>>

Click == \E k \in 1..Len(bookPages) : ClickRegenerate(k)

\* regeneratePageImage of each page of the book up to its await, and what it
\* does when the request ends, for every outcome (a call depends on the
\* page's text and drawings only, which no update changes)
PreviewResponses ==
    { [ awaiting |-> r, after |-> Untraced(RegenRespondTo(r, o)) ] :
        r \in { Untraced(RegenBegin(
                    [IdleRegen EXCEPT
                        !.pageId = PreviewBook[k].id,
                        !.storyPart = PreviewBook[k].text,
                        !.originalImages = PreviewBook[k].originalImages],
                    Client)) : k \in 1..Len(PreviewBook) },
        o \in PreviewOutcomes }

\* the request of call n ends
CallRespond(n) ==
    \E j \in 1..Len(calls) :
        /\ calls[j].n = n
        /\ calls[j].r.pc = "regen_await"
        /\ UNCHANGED <<env, form, ai, book, regen, ui>>
        /\ \E t \in PreviewResponses :
             /\ t.awaiting = calls[j].r
             /\ calls' = [calls EXCEPT ![j].r = t.after]

\* handleRegenerate of call n after its await
CallSettled(n) ==
    \E j \in 1..Len(calls) :
        /\ calls[j].n = n
        /\ calls[j].r.pc \in {"returned", "failed"}
        /\ calls' = RemoveAt(calls, j)
        /\ regeneratingPageId' = MarkAfterRegen(regeneratingPageId, calls[j].r)
        /\ bookPages' = PagesAfterRegen(PagesToUpdate(bookPages, calls[j].pages),
                                        calls[j].r)
        /\ UNCHANGED <<env, form, ai, book, regen, step, error>>

PreviewNext ==
    \/ Click
    \/ \E n \in 1..MaxCalls : CallRespond(n)
    \/ \E n \in 1..MaxCalls : CallSettled(n)

SpecPreview == PreviewInit /\ [][PreviewNext]_vars


\* Every call goes on: its request ends, and the continuation of its await
\* runs.
SpecPreviewLive ==
    /\ SpecPreview
    /\ \A n \in 1..MaxCalls : WF_vars(CallRespond(n) \/ CallSettled(n))

\* ------------------------------------------------------------------------
\* Classifier runs: isRetryableError applied to one value. The values are
\* errors whose message is a text built around a code (JSON texts with the
\* code at error.code or elsewhere, a truncated JSON text, plain text) and
\* the provider errors of the other runs.
\* ------------------------------------------------------------------------

CodeTexts ==
    { <<"5", "0", "3">>, <<"\"", "5", "0", "3", "\"">>, <<"\"", "5", "0", "3", " ", "\"">>,
            <<"[", "5", "0", "3", "]">>, <<"4", "2", "9">>, <<"\"", "4", "2", "9", "\"">>,
            <<"n", "u", "l", "l">>,
      <<"5", "0", "3", "0">>, <<"\"", "o", "v", "e", "r", "l", "o", "a", "d", "e", "d",
              "\"">>, <<"{", "}">> }

\* the texts built around a code c: {"error":{"code":c}}, the same with 503
\* and overloaded in another field, {"code":c}, {"error":c}, c alone, a JSON
\* text cut short, plain text
MessageTexts ==
    UNION { { <<"{", "\"", "e", "r", "r", "o", "r", "\"", ":", "{", "\"", "c", "o", "d", "e",
            "\"", ":">> \o c \o <<"}", "}">>,
              <<"{", "\"", "e", "r", "r", "o", "r", "\"", ":", "{", "\"", "c", "o", "d", "e",
                      "\"", ":">> \o c \o <<",", "\"", "s", "t", "a", "t", "u", "s", "\"",
                      ":", "\"", "o", "v", "e", "r", "l", "o", "a", "d", "e", "d", " ", "5",
                      "0", "3", "\"", "}", "}">>,
              <<"{", "\"", "c", "o", "d", "e", "\"", ":">> \o c \o <<"}">>,
              <<"{", "\"", "e", "r", "r", "o", "r", "\"", ":">> \o c \o <<"}">>,
              c,
              <<"{", "\"", "e", "r", "r", "o", "r", "\"", ":", "{", "\"", "c", "o", "d", "e",
                      "\"", ":">> \o c,
              <<"e", "r", "r", "o", "r", " ">> \o c } : c \in CodeTexts }

ClassifierInputs == { ErrorWith(m) : m \in MessageTexts } \cup ProviderErrors

ClassifyInit ==
    /\ apiKey = TRUE
    /\ jsonErrorEchoesSource = FALSE
    /\ ai = FALSE
    /\ book = IdleBook
    /\ regen = IdleRegen
    /\ step = "Input"
    /\ bookPages = <<>>
    /\ error = Null
    /\ regeneratingPageId = Null
    /\ feed = <<>>
    /\ calls = <<>>
    /\ form = FilledForm
    /\ probe \in { [value |-> e, done |-> FALSE, retryable |-> FALSE] :
                   e \in ClassifierInputs }

\* isRetryableError(probe.value) returns
Classify ==
    /\ ~probe.done
    /\ probe' = [probe EXCEPT !.done = TRUE, !.retryable = IsRetryableError(probe.value)]
    /\ UNCHANGED <<apiKey, jsonErrorEchoesSource, ai, book, regen, ui, form, feed, calls>>

SpecClassify == ClassifyInit /\ [][Classify]_vars

\* ------------------------------------------------------------------------
\* Application runs: the form, handleCreateBook with its check of the
\* inputs, the book, one regeneration at a time and handleRestart, with a few
\* outcomes of each kind for the requests.
\* ------------------------------------------------------------------------

Forms ==
    [title : {<<>>, <<"t">>}, theme : {<<>>, <<"t">>}, characterImages : 0..1]

\* setTitle, setTheme, setCharacterImages from the form: one field changes
EditForm ==
    /\ step = "Input"
    /\ \E f \in Forms :
         /\ Cardinality({ k \in DOMAIN f : f[k] # form[k] }) = 1
         /\ form' = f
    /\ UNCHANGED <<env, calls, ai, book, regen, ui>>

\* handleCreateBook with an input missing: the message is set and it returns
CreateRefused ==
    /\ step = "Input"
    /\ book.pc = "idle"
    /\ InputsMissing(form)
    /\ error' = GetField(InputsMissingError, K_message)
    /\ UNCHANGED <<env, form, calls, ai, book, regen, step, bookPages, regeneratingPageId>>

\* handleRestart: the form and the book are reset and the Input step is
\* shown; BookPreview unmounts, and the one mounted with the next book starts
\* with no page marked. A regeneratePageImage call under way is left running
\* (stale records that it belongs to the book given up)
Restart ==
    /\ step = "Preview"
    /\ form' = EmptyForm
    /\ bookPages' = <<>>
    /\ error' = Null
    /\ step' = "Input"
    /\ regeneratingPageId' = Null
    /\ regen' = IF regen.pc = "idle" THEN regen ELSE [regen EXCEPT !.stale = TRUE]
    /\ UNCHANGED <<env, calls, ai, book>>

AppStoryOutcomes ==
    { Thrown(E_Overloaded), Thrown(E_InvalidArgument) }
    \cup { Response(Obj(<< <<K_text, Str(StoryJson([k \in 1..n |-> TextOf(k)]))>> >>)) :
             n \in 1..MaxParts }

AppStoryRespond == \E o \in AppStoryOutcomes : StoryRespondWith(o)

AppPageOutcomes ==
    { Thrown(E_Json503), Thrown(E_InvalidArgument), Response(R_TextOnly), Response(R_Png) }

AppPageRespond == \E o \in AppPageOutcomes : PageRespondWith(o)

\* a regeneration fails, for good or not, or returns an image other than the
\* page's
AppRegenOutcomes ==
    { Thrown(E_Json503), Thrown(E_InvalidArgument), Response(R_JpegThenPng) }

AppRegenRespond == \E o \in AppRegenOutcomes : RegenRespondWith(o)

AppInit ==
    /\ apiKey \in BOOLEAN
    /\ jsonErrorEchoesSource = FALSE
    /\ ai = FALSE
    /\ book = IdleBook
    /\ regen = IdleRegen
    /\ step = "Input"
    /\ bookPages = <<>>
    /\ error = Null
    /\ regeneratingPageId = Null
    /\ form = EmptyForm
    /\ feed = <<>>
    /\ calls = <<>>
    /\ probe = NoProbe

AppNext ==
    \/ EditForm
    \/ CreateRefused
    \/ BookStart
    \/ AppStoryRespond
    \/ StoryWake
    \/ ConvertDone
    \/ AppPageRespond
    \/ PageWake
    \/ BookSettled
    \/ RegenStart
    \/ AppRegenRespond
    \/ RegenWake
    \/ RegenSettled
    \/ Restart

SpecApp == AppInit /\ [][AppNext]_vars

\* ------------------------------------------------------------------------
\* Book runs under fairness: handleCreateBook with the form filled in, again
\* and again. Every request settles (the provider answers or the SDK
\* throws), every timer of sleep fires, every FileReader ends with load or
\* error, and the continuation of a settled await runs.
\* ------------------------------------------------------------------------

BookNext ==
    \/ BookStart
    \/ AppStoryRespond
    \/ StoryWake
    \/ ConvertDone
    \/ AppPageRespond
    \/ PageWake
    \/ BookSettled

SpecBookLive ==
    /\ Init
    /\ [][BookNext]_vars
    /\ WF_vars(AppStoryRespond)
    /\ WF_vars(StoryWake)
    /\ WF_vars(ConvertDone)
    /\ WF_vars(AppPageRespond)
    /\ WF_vars(PageWake)
    /\ WF_vars(BookSettled)

\* ------------------------------------------------------------------------
\* Reading a call's log
\* ------------------------------------------------------------------------

IsRequest(ev) == ev.e = "request"

IsRequestOrWait(ev) == ev.e \in {"request", "wait"}

\* how an attempt ended
IsOutcome(ev) == ev.e \in {"error", "unusable", "usable", "config"}

Requests(log) == Len(SelectSeq(log, IsRequest))

\* the requests and waits of an operation, in order
Timeline(log) == SelectSeq(log, IsRequestOrWait)

\* the outcomes of the attempts of an operation, in order
Outcomes(log) == SelectSeq(log, IsOutcome)

IsPrefix(s, t) == Len(s) <= Len(t) /\ s = SubSeq(t, 1, Len(s))

\* every attempt that has ended failed and its error was classified retryable
AllRetryable(log) ==
    \A k \in 1..Len(log) :
        IsOutcome(log[k]) =>
            /\ log[k].e # "usable"
            /\ k < Len(log)
            /\ log[k + 1].e = "retryable"

\* three requests, with waits of 2000 ms and 4000 ms between them
FullTimeline ==
    << Ev("request", 0), Ev("wait", INITIAL_DELAY_MS), Ev("request", 0),
       Ev("wait", 2 * INITIAL_DELAY_MS), Ev("request", 0) >>

\* the call is in generateStory / in the loop over the pages
InStory(b) == b.pc \in {"story_await", "story_sleep"} \/ (b.pc = "failed" /\ b.storyParts = <<>>)

InPages(b) ==
    b.pc \in {"page_await", "page_sleep"} \/ (b.pc = "failed" /\ b.originalImages # <<>>)

\* the number of requests of the call for target t
IssuedFor(b, t) == Cardinality({ k \in 1..Len(b.issued) : b.issued[k] = t })

\* ------------------------------------------------------------------------
\* C1: generatePictureBook either fails, returning no pages, or returns one
\* page per story part, the page at position i with id i and the text of
\* story part i; it never resolves with a short or partly filled list.
\* ------------------------------------------------------------------------
C1_WholeBookOrFailure ==
    /\ book.pc = "returned" =>
          /\ Len(book.result) = Len(book.storyParts)
          /\ \A k \in 1..Len(book.result) :
                /\ book.result[k].id = k - 1
                /\ book.result[k].text = book.storyParts[k]
    /\ book.pc # "returned" => book.result = <<>>
    /\ book.pc = "failed" => book.error # Undefined

\* a book of two pages was returned after a page needed more than one request
C1_Witness ==
    /\ book.pc = "returned"
    /\ Len(book.result) = 2
    /\ Len(book.issued) > 3

\* ------------------------------------------------------------------------
\* C2: in each of the three operations, when every attempt fails with an
\* error classified retryable, exactly MAX_RETRIES = 3 requests are made, with
\* a wait of 2000 ms before attempt 2 and of 4000 ms before attempt 3, no wait
\* before attempt 1 and none after the failed attempt 3.
\* ------------------------------------------------------------------------
C2_TimingOf(c) ==
    AllRetryable(c.log) =>
        /\ IsPrefix(Timeline(c.log), FullTimeline)
        /\ c.pc = "failed" /\ c.log # <<>> => Timeline(c.log) = FullTimeline

C2_RetryTiming == C2_TimingOf(book) /\ C2_TimingOf(regen)

\* the second page failed after three attempts, each with a retryable error
C2_Witness ==
    /\ book.pc = "failed"
    /\ Len(book.pages) = 1
    /\ AllRetryable(book.log)
    /\ Timeline(book.log) = FullTimeline

\* ------------------------------------------------------------------------
\* C3 (as claimed): when every story response carries an unusable payload,
\* generateStory makes 3 attempts and only then raises the story-generation
\* error.
\* ------------------------------------------------------------------------
C3_UnusableStoryRetried ==
    ( /\ book.pc = "failed"
      /\ InStory(book)
      /\ Outcomes(book.log) # <<>>
      /\ \A k \in 1..Len(book.log) :
            IsOutcome(book.log[k]) => book.log[k].e = "unusable" )
    => Requests(book.log) = MAX_RETRIES

\* ------------------------------------------------------------------------
\* C4 (as claimed): in the page loop a response with no inline-data part is
\* retried rather than failing at once; the book fails, naming the page and
\* returning no pages, only when the 3 attempts gave no image part.
\* ------------------------------------------------------------------------
C4_MissingImageRetried ==
    ( /\ book.pc = "failed"
      /\ InPages(book)
      /\ Outcomes(book.log) # <<>>
      /\ Outcomes(book.log)[Len(Outcomes(book.log))].e = "unusable" )
    => /\ Requests(book.log) = MAX_RETRIES
       /\ book.error \in {PageFailedError(book.i), PageRepeatedlyFailedError(book.i)}
       /\ book.result = <<>>

\* ------------------------------------------------------------------------
\* C5 (as claimed): fed the same outcomes, the page loop and
\* regeneratePageImage make the same number of requests and end the same way:
\* success with the same image, or failure.
\* ------------------------------------------------------------------------
C5_RegenLikePageLoop ==
    ( book.pc \in {"returned", "failed"} /\ regen.pc \in {"returned", "failed"} )
    => /\ IssuedFor(book, 0) = regen.issued
       /\ book.pc = regen.pc
       /\ book.pc = "returned" => book.result[1].imageUrl = regen.result.s

\* ------------------------------------------------------------------------
\* C6: in each of the three operations a failed attempt is retried only if
\* its error is classified retryable and fewer than 3 attempts have been
\* made; an error classified non-retryable ends the operation at once with
\* the translated error, with no wait and no further request.
\* ------------------------------------------------------------------------
C6_RetryRuleOf(c, translated) ==
    \A k \in 1..Len(c.log) :
        \* a non-retryable error is the end of the operation
        /\ c.log[k].e = "not_retryable" =>
              k = Len(c.log) /\ c.pc = "failed" /\ c.error = translated
        \* a wait follows an error classified retryable, with attempts left
        /\ c.log[k].e = "wait" =>
              /\ k > 1 /\ c.log[k - 1].e = "retryable"
              /\ Requests(SubSeq(c.log, 1, k)) < MAX_RETRIES
        \* a thrown error is classified by the catch block
        /\ c.log[k].e \in {"error", "config"} =>
              k < Len(c.log) /\ c.log[k + 1].e \in {"retryable", "not_retryable"}
        \* after a classified error the next request comes only after a wait
        /\ (c.log[k].e = "request" /\ k > 1 /\ c.log[k - 1].e # "unusable") =>
              c.log[k - 1].e = "wait"
        \* a retryable error on the last attempt ends the operation
        /\ (c.log[k].e = "retryable" /\ Requests(SubSeq(c.log, 1, k)) = MAX_RETRIES) =>
              k = Len(c.log) /\ c.pc = "failed" /\ c.error = translated

\* an unusable payload is an error of the attempt, classified like any other
C6_UnusableIsClassified(log) ==
    \A k \in 1..Len(log) :
        log[k].e = "unusable" =>
            k < Len(log) /\ log[k + 1].e \in {"retryable", "not_retryable"}

C6_RetryOnlyWhenRetryable ==
    /\ InStory(book) =>
          C6_RetryRuleOf(book, StoryFailedError) /\ C6_UnusableIsClassified(book.log)
    /\ InPages(book) => C6_RetryRuleOf(book, PageFailedError(book.i))
    /\ C6_RetryRuleOf(regen, RegenFailedError) /\ C6_UnusableIsClassified(regen.log)

\* a regeneration that was retried once ended on a non-retryable error
C6_Witness ==
    /\ regen.pc = "failed"
    /\ Requests(regen.log) = 2
    /\ regen.log[Len(regen.log)].e = "not_retryable"
    /\ regen.log[Len(regen.log) - 1].e = "error"

\* ------------------------------------------------------------------------
\* C7: no operation issues more than MAX_RETRIES = 3 requests: at most 3 for
\* the story, 3 for each page, 3 for a regeneration; a book of n story parts
\* takes at most 3 + 3n requests.
\* ------------------------------------------------------------------------
C7_AtMostMaxRetries ==
    /\ IssuedFor(book, StoryTarget) <= MAX_RETRIES
    /\ \A t \in 0..MaxParts : IssuedFor(book, t) <= MAX_RETRIES
    /\ Len(book.issued) <= MAX_RETRIES + MAX_RETRIES * Len(book.storyParts)
    /\ regen.issued <= MAX_RETRIES
    /\ Requests(book.log) <= MAX_RETRIES
    /\ Requests(regen.log) <= MAX_RETRIES

\* a book of two pages that took all 3 + 3 * 2 requests
C7_Witness ==
    /\ book.pc = "returned"
    /\ Len(book.storyParts) = 2
    /\ Len(book.issued) = MAX_RETRIES + MAX_RETRIES * 2

\* ------------------------------------------------------------------------
\* C8: within one generatePictureBook call the story requests complete
\* before any page request is issued, page requests are issued in page order,
\* none for page i+1 before page i has its BookPage, and at most one request
\* of the call is outstanding at any time.
\* ------------------------------------------------------------------------
C8_OneRequestAtATime ==
    /\ book.outstanding \in {0, 1}
    /\ book.outstanding = 1 <=> book.pc \in {"story_await", "page_await"}
    /\ \A k \in 1..Len(book.issued) :
          \* targets never go back: the story first, then the pages in order
          /\ k > 1 => book.issued[k - 1] <= book.issued[k]
          \* a page is requested only when the story is there and all pages
          \* before it have been produced
          /\ book.issued[k] >= 0 =>
                /\ book.storyParts # <<>>
                /\ book.issued[k] < Len(book.storyParts)
                /\ book.issued[k] <= Len(book.pages)
    /\ book.pc = "page_await" =>
          /\ book.issued[Len(book.issued)] = book.i
          /\ Len(book.pages) = book.i
    /\ book.pc \in {"story_await", "story_sleep"} =>
          \A k \in 1..Len(book.issued) : book.issued[k] = StoryTarget

\* the request for the second page is outstanding, after retries
C8_Witness ==
    /\ book.pc = "page_await"
    /\ book.i = 1
    /\ book.outstanding = 1
    /\ Len(book.issued) > 3

\* ------------------------------------------------------------------------
\* C9 (as claimed): a returned book has exactly numPages pages.
\* ------------------------------------------------------------------------
C9_RequestedPageCount ==
    book.pc = "returned" => Len(book.result) = book.numPages

\* C9 (amended): a returned book has as many pages as the accepted story
\* response carried page texts, at least one, whatever numPages was.
C9_StoryPageCount ==
    book.pc = "returned" =>
        /\ Len(book.result) = Len(book.storyParts)
        /\ Len(book.result) >= 1
        /\ book.storyParts \in { [k \in 1..Len(arr) |-> Str(arr[k])] : arr \in StoryArrays }

\* a book was returned whose length is not the page count asked for
C9_Witness ==
    /\ book.pc = "returned"
    /\ Len(book.result) # book.numPages

\* ------------------------------------------------------------------------
\* C10: isRetryableError is true for {message: '{"error":{"code":503}}'} and
\* for {message: "Service overloaded, retry later"}, false for
\* {message: "invalid argument"}, for a value that is no object (null
\* included) and for an object whose message is no string.
\* ------------------------------------------------------------------------
C10_ClassifiedBy(c) ==
    c.caught # Undefined =>
        /\ c.caught = E_Json503 => c.classified
        /\ c.caught = E_Overloaded => c.classified
        /\ c.caught = E_InvalidArgument => ~c.classified
        /\ c.caught.t # "object" => ~c.classified
        /\ (c.caught.t = "object" /\ GetField(c.caught, K_message).t # "string") =>
              ~c.classified

C10_ClassifierExamples == C10_ClassifiedBy(book) /\ C10_ClassifiedBy(regen)

\* the catch block of the page loop classified the overloaded error
C10_Witness ==
    /\ book.pc = "page_sleep"
    /\ book.caught = E_Overloaded
    /\ book.classified

\* ------------------------------------------------------------------------
\* C11: without the API key the first use of the provider fails with no
\* request issued, no retry and no backoff wait: generatePictureBook and
\* regeneratePageImage each fail after exactly one attempt.
\* ------------------------------------------------------------------------
C11_NoKeyOf(c) ==
    /\ c.pc \in {"idle", "failed"}
    /\ c.outstanding = 0
    /\ \A k \in 1..Len(c.log) : c.log[k].e \notin {"request", "wait"}
    /\ c.pc = "failed" =>
          /\ c.attempt = 0
          /\ c.clientCalls = 1
          /\ c.log = << Ev("config", 0), Ev("not_retryable", 0) >>

C11_NoKeyFailsAtOnce ==
    ~apiKey =>
        /\ ~ai
        /\ C11_NoKeyOf(book) /\ book.issued = <<>>
        /\ C11_NoKeyOf(regen) /\ regen.issued = 0

\* without the key a book call has failed (its error is shown) and now a
\* regeneration has failed
C11_Witness ==
    /\ ~apiKey
    /\ error # Null
    /\ regen.pc = "failed"


\* ------------------------------------------------------------------------
\* C12 (as claimed): without the API key the failure that reaches the caller
\* of generatePictureBook, and the error the application shows, carry the
\* message raised by getAiInstance.
\* ------------------------------------------------------------------------
C12_KeyMessageReachesCaller ==
    ~apiKey =>
        /\ book.pc = "failed" => book.error = ApiKeyError
        /\ error # Null => error = GetField(ApiKeyError, K_message)

\* ------------------------------------------------------------------------
\* C13: a successful regeneration of the page with id X changes only the
\* imageUrl of the page whose id is X: id, text and originalImages of every
\* page, the imageUrl of every other page, and the number and order of the
\* pages stay as they are.
\* ------------------------------------------------------------------------

\* the j-th call has resolved and this step is the rest of its handler
SettlesResolved(j) == calls[j].r.pc = "returned" /\ calls' = RemoveAt(calls, j)

C13_FrameOf(before, after, pageId) ==
    /\ Len(after) = Len(before)
    /\ \A k \in 1..Len(before) :
          /\ after[k].id = before[k].id
          /\ after[k].text = before[k].text
          /\ after[k].originalImages = before[k].originalImages
          /\ before[k].id # pageId => after[k].imageUrl = before[k].imageUrl

C13_OnlyOwnImageChanges ==
    [][ \A j \in 1..Len(calls) :
           SettlesResolved(j) => C13_FrameOf(bookPages, bookPages', calls[j].pageId) ]_vars

\* the first page has a regenerated image, the second page is as it was
C13_Witness ==
    /\ calls = <<>>
    /\ bookPages[1].imageUrl # PreviewBook[1].imageUrl
    /\ bookPages[2] = PreviewBook[2]

\* ------------------------------------------------------------------------
\* C14: when regeneratePageImage fails for a page the book is left exactly as
\* it was: the page keeps its imageUrl, no other page changes, and the
\* application stays at the Preview step.
\* ------------------------------------------------------------------------
C14_FailureKeepsBook ==
    [][ (regen.pc = "failed" /\ regen' = IdleRegen) =>
            /\ bookPages' = bookPages
            /\ step = "Preview" /\ step' = "Preview"
            /\ error' = error ]_vars

\* a regeneration of a page of the book shown has failed after a retry
C14_Witness ==
    /\ step = "Preview"
    /\ regen.pc = "failed"
    /\ regen.issued > 1
    /\ \E k \in 1..Len(bookPages) : bookPages[k].id = regen.pageId

\* ------------------------------------------------------------------------
\* C15: every imageUrl of a successful page generation or regeneration is the
\* string data:<mimeType>;base64,<payload> of the first part of the first
\* candidate that carries inline data; a returned page never has an empty
\* imageUrl.
\* ------------------------------------------------------------------------

\* the URL the response of outcome o stands for, written out
C15_UrlOf(o) ==
    IF o = Response(R_Png) THEN <<"d", "a", "t", "a", ":", "i", "m", "a", "g", "e", "/", "p",
            "n", "g", ";", "b", "a", "s", "e", "6", "4", ",", "A", "A", "A">>
    ELSE IF o = Response(R_JpegThenPng) THEN <<"d", "a", "t", "a", ":", "i", "m", "a", "g",
            "e", "/", "j", "p", "e", "g", ";", "b", "a", "s", "e", "6", "4", ",", "B", "B",
            "B">>
    ELSE <<>>

C15_DataUrlOfFirstImage ==
    /\ book.pc = "returned" =>
          /\ Len(book.result) = 1
          /\ book.result[1].imageUrl = C15_UrlOf(feed[IssuedFor(book, 0)])
          /\ book.result[1].imageUrl # <<>>
    /\ regen.pc = "returned" =>
          /\ regen.result = Str(C15_UrlOf(feed[regen.issued]))
          /\ regen.result.s # <<>>
    /\ \A k \in 1..Len(book.pages) : book.pages[k].imageUrl # <<>>

\* both got their image from a response whose parts are a JPEG, then a PNG,
\* after an attempt that failed
C15_Witness ==
    /\ book.pc = "returned"
    /\ regen.pc = "returned"
    /\ feed[1] = Thrown(E_Json503)
    /\ feed[2] = Response(R_JpegThenPng)

\* ------------------------------------------------------------------------
\* C16 (as claimed): every retry is preceded by a backoff wait: whenever
\* attempt k+1 is made, a wait of INITIAL_DELAY_MS * 2^(k-1) ms lies between
\* attempt k and attempt k+1, also when attempt k failed because the response
\* carried no usable payload.
\* ------------------------------------------------------------------------
C16_WaitsIn(log) ==
    \A k \in 2..Len(log) :
        log[k].e = "request" =>
            /\ log[k - 1].e = "wait"
            /\ log[k - 1].ms =
                  INITIAL_DELAY_MS * 2^(Requests(SubSeq(log, 1, k - 1)) - 1)

C16_EveryRetryWaits == C16_WaitsIn(book.log) /\ C16_WaitsIn(regen.log)

\* ------------------------------------------------------------------------
\* C17 (as claimed): the regenerate button of a page is disabled for as long
\* as a regeneration request for that page is in flight, so that no second
\* request for the same page can be submitted meanwhile.
\* ------------------------------------------------------------------------
C17_PageLockedWhileInFlight ==
    \A j \in 1..Len(calls) :
        calls[j].r.pc = "regen_await" =>
            /\ ButtonDisabled(regeneratingPageId, calls[j].pageId)
            /\ \A i \in 1..Len(calls) : i # j => calls[i].pageId # calls[j].pageId

\* ------------------------------------------------------------------------
\* C18: regenerations of different pages that are in flight at the same time
\* are independent: in whatever order they complete, each successful one
\* replaces the imageUrl of its own page and none overwrites or discards the
\* result of another.
\* ------------------------------------------------------------------------
C18_NoLostUpdate ==
    [][ \A j \in 1..Len(calls) :
           SettlesResolved(j) =>
               \A k \in 1..Len(bookPages) :
                   bookPages'[k].imageUrl =
                       IF bookPages[k].id = calls[j].pageId
                       THEN calls[j].r.result.s
                       ELSE bookPages[k].imageUrl ]_vars

\* a call for the second page has resolved with a new image; while it was
\* under way a regeneration of the first page has replaced the image of the
\* first page
C18_Witness ==
    \E j \in 1..Len(calls) :
        /\ calls[j].pageId = 1
        /\ calls[j].r.pc = "returned"
        /\ calls[j].r.result.s # bookPages[2].imageUrl
        /\ calls[j].pages = PreviewBook
        /\ bookPages[1].imageUrl # PreviewBook[1].imageUrl
        /\ bookPages[2] = PreviewBook[2]

\* ------------------------------------------------------------------------
\* C19 (as claimed): generatePictureBook converts the uploaded files before
\* it issues the story request, and every page of the book carries the list
\* that conversion gave.
\* ------------------------------------------------------------------------
C19_ConvertedBeforeRequests ==
    /\ book.issued # <<>> => book.originalImages = ConvertedImages
    /\ \A k \in 1..Len(book.pages) : book.pages[k].originalImages = ConvertedImages

\* ------------------------------------------------------------------------
\* C20: once the generation of page i has failed finally, generatePictureBook
\* issues no further request: none for any page j > i; and a failure of the
\* story means that no page-image request is made at all.
\* ------------------------------------------------------------------------
C20_FailureStopsRequests ==
    /\ book.error # Undefined => book.pc = "failed"
    /\ book.pc = "failed" =>
          /\ book.outstanding = 0
          /\ \A k \in 1..Len(book.issued) : book.issued[k] <= book.i
          /\ book.storyParts = <<>> =>
                \A k \in 1..Len(book.issued) : book.issued[k] = StoryTarget
          /\ ~ENABLED (StoryRespond \/ StoryWake \/ ConvertDone \/ PageRespond \/ PageWake)

\* the first of two pages failed after retries: the second was never asked for
C20_Witness ==
    /\ book.pc = "failed"
    /\ Len(book.storyParts) = 2
    /\ book.i = 0
    /\ IssuedFor(book, 0) > 1
    /\ IssuedFor(book, 1) = 0

\* ------------------------------------------------------------------------
\* C21
\* ------------------------------------------------------------------------

\* the classified value has a string message
C21_HasMessage ==
    /\ probe.done
    /\ IsObject(probe.value)
    /\ GetField(probe.value, K_message).t = "string"

C21_Parsed == JSONParse(GetField(probe.value, K_message).s)

C21_Code == GetField(GetField(C21_Parsed.v, K_error), K_code)

C21_Fallback ==
    \/ Includes(GetField(probe.value, K_message).s, S_503)
    \/ Includes(GetField(probe.value, K_message).s, S_overloaded)

\* C21 as stated: a message that parses as JSON is retryable exactly when its
\* error.code is the number 503 or the string "503", and a message that does
\* not parse exactly when it contains "503" or "overloaded"
C21_CodeIsNumberOrString503 ==
    C21_HasMessage =>
        IF C21_Parsed.ok
        THEN probe.retryable <=> (C21_Code = Num(503) \/ C21_Code = Str(S_503))
        ELSE probe.retryable <=> C21_Fallback

\* C21 (amended): the substring test applies only when the message does not
\* parse as JSON. A message that parses is retryable exactly when its
\* error.code == 503 in the lenient comparison of the language (the number 503,
\* a string that converts to it such as "503" or "503 ", an array such as
\* [503]), whatever its text contains; a message that does not parse is
\* retryable exactly when it contains "503" or "overloaded".
C21_FallbackOnlyWhenUnparsable ==
    C21_HasMessage =>
        IF C21_Parsed.ok
        THEN probe.retryable <=> LooseEquals503(C21_Code)
        ELSE probe.retryable <=> C21_Fallback

\* a message that parses, with code 429 and both words in its text, was
\* classified not retryable
C21_Witness ==
    /\ probe.done
    /\ probe.value = ErrorWith(<<"{", "\"", "e", "r", "r", "o", "r", "\"", ":", "{", "\"",
            "c", "o", "d", "e", "\"", ":", "4", "2", "9", ",", "\"", "s", "t", "a", "t", "u",
            "s", "\"", ":", "\"", "o", "v", "e", "r", "l", "o", "a", "d", "e", "d", " ", "5",
            "0", "3", "\"", "}", "}">>)
    /\ C21_Parsed.ok
    /\ C21_Fallback
    /\ ~probe.retryable

\* ------------------------------------------------------------------------
\* C22
\* ------------------------------------------------------------------------

\* the call c made a step in which getAiInstance was called
C22_Accessed(before, after) == after.clientCalls > before.clientCalls

\* what holds of such a step
C22_StepOf(before, after) ==
    C22_Accessed(before, after) =>
        IF ai
        THEN /\ ai'
             /\ after.keyReads = before.keyReads
             /\ after.handlesMade = before.handlesMade
        ELSE /\ after.keyReads = before.keyReads + 1
             /\ after.handlesMade = before.handlesMade + (IF apiKey THEN 1 ELSE 0)
             /\ ai' = apiKey

\* C22: once a client is cached it stays the cached one: every later call of
\* getAiInstance, in any operation, neither reads the key nor constructs a
\* client; a call made while nothing is cached reads the key, and when the key
\* is absent it leaves the cache empty, so that the next call reads it again
C22_ClientCachedOnce ==
    [][ /\ ai => ai'
        /\ C22_StepOf(book, book')
        /\ C22_StepOf(regen, regen') ]_vars

\* a regeneration has called getAiInstance after a book was made: it got the
\* cached client
C22_Witness ==
    /\ ai
    /\ regen.clientCalls >= 1
    /\ regen.keyReads = 0
    /\ regen.handlesMade = 0

\* ------------------------------------------------------------------------
\* C23
\* ------------------------------------------------------------------------

C23_StoryErrors == { StoryFailedError, StoryNoResponseError, StoryEmptyError }

C23_PageErrors(i) == { PageFailedError(i), PageRepeatedlyFailedError(i) }

C23_RegenErrors == { RegenFailedError, RegenNoResponseError }

\* the messages of the stages are those of the stage alone, and a page
\* message holds the number of its page
C23_Distinct ==
    /\ C23_StoryErrors \cap C23_RegenErrors = {}
    /\ \A i \in 0..MaxParts :
         /\ C23_PageErrors(i) \cap (C23_StoryErrors \cup C23_RegenErrors) = {}
         /\ \A e \in C23_PageErrors(i) :
              Includes(GetField(e, K_message).s, NumberToString(i + 1))
         /\ \A j \in 0..MaxParts : C23_PageErrors(i) \cap C23_PageErrors(j) # {} => i = j

\* C23: every final failure carries the message of its stage: a failed
\* generatePictureBook call rejects with a story message when no story was
\* obtained and else with a message of page i+1, i being the first page that
\* was not generated; a failed regeneration rejects with a regeneration
\* message; the value is never the provider's error
C23_FailureNamesStage ==
    /\ C23_Distinct
    /\ book.pc = "failed" =>
         /\ GetField(book.error, K_message).t = "string"
         /\ book.error \notin ProviderErrors
         /\ IF book.storyParts = <<>>
            THEN book.error \in C23_StoryErrors
            ELSE /\ book.error \in C23_PageErrors(book.i)
                 /\ Len(book.pages) = book.i
    /\ regen.pc = "failed" =>
         /\ regen.error \in C23_RegenErrors
         /\ regen.error \notin ProviderErrors

\* ------------------------------------------------------------------------
\* C24
\* ------------------------------------------------------------------------

\* C24: the completion of a regeneration that was requested for a book given
\* up by a restart changes no page of the book shown
C24_StaleResultNotApplied ==
    [][ (regen.stale /\ regen.pc \in {"returned", "failed"} /\ regen'.pc = "idle")
            => bookPages' = bookPages ]_vars

\* ------------------------------------------------------------------------
\* C25
\* ------------------------------------------------------------------------

C25_StepMatchesPages ==
    /\ step = "Preview" => bookPages # <<>>
    /\ step \in {"Input", "Loading"} => bookPages = <<>>

\* an error message is shown
C25_ErrorSet(e) == e.t = "string" /\ e.s # <<>>

C25_Transition ==
    step' # step =>
        \/ /\ step = "Input" /\ step' = "Loading"
           /\ ~InputsMissing(form)
        \/ /\ step = "Loading" /\ step' = "Preview"
           /\ book.pc = "returned"
           /\ bookPages' = book.result
        \/ /\ step = "Loading" /\ step' = "Input"
           /\ book.pc = "failed"
           /\ C25_ErrorSet(error')
        \/ /\ step = "Preview" /\ step' = "Input"
           /\ bookPages' = <<>>
           /\ form' = EmptyForm

\* C25: in the Preview step the book has pages and in the Input and Loading
\* steps it has none; the step changes only from Input to Loading (create with
\* all inputs present), from Loading to Preview (the book returned), from
\* Loading to Input (the book failed and an error message is set) and from
\* Preview to Input (restart)
C25_StepsAndPages == [](C25_StepMatchesPages) /\ [][C25_Transition]_vars

\* ------------------------------------------------------------------------
\* C26
\* ------------------------------------------------------------------------

C26_Missing == form.title = <<>> \/ form.theme = <<>> \/ form.characterImages = 0

\* with an input missing, a step of the Input screen that is neither an edit
\* of the form nor the progress of a regeneration left over is the create
\* action: it sets the message and changes nothing else
C26_Refused ==
    (step = "Input" /\ C26_Missing /\ form' = form /\ regen' = regen) =>
        /\ error' = GetField(InputsMissingError, K_message)
        /\ error'.t = "string" /\ error'.s # <<>>
        /\ step' = "Input"
        /\ bookPages' = bookPages
        /\ book' = book
        /\ ai' = ai

\* a generatePictureBook call begins only with all three inputs present
C26_Started == (book.pc = "idle" /\ book'.pc # "idle") => ~C26_Missing

\* C26: the create action with an empty title, an empty theme or no drawing
\* issues no provider request, leaves the step at Input and bookPages as it
\* was and sets the error message; a book generation starts only when all
\* three are present
C26_InputsChecked == [][C26_Refused /\ C26_Started]_vars

\* the create action was refused
C26_Witness ==
    /\ step = "Input"
    /\ C26_Missing
    /\ error = GetField(InputsMissingError, K_message)
    /\ book = IdleBook
    /\ bookPages = <<>>

\* ------------------------------------------------------------------------
\* C27
\* ------------------------------------------------------------------------

\* the book shown has one page with an image for each part of the story
C27_CompleteBook(shown, b) ==
    /\ shown = b.result
    /\ Len(shown) = Len(b.storyParts)
    /\ Len(shown) > 0
    /\ \A k \in 1..Len(shown) : shown[k].id = k - 1 /\ shown[k].imageUrl # <<>>

C27_LeavesLoading == (step = "Loading") ~> (step # "Loading")

C27_Ending ==
    (step = "Loading" /\ step' # "Loading") =>
        \/ step' = "Preview" /\ C27_CompleteBook(bookPages', book)
        \/ step' = "Input" /\ error'.t = "string" /\ error'.s # <<>>

\* C27: when every request, every backoff wait and every read of a drawing
\* ends, a book generation that was started ends: the Loading step is left,
\* for Preview with the complete book or for Input with an error message set
C27_BookTerminates == C27_LeavesLoading /\ [][C27_Ending]_vars

\* ------------------------------------------------------------------------
\* C28
\* ------------------------------------------------------------------------

\* handleRegenerate call n is under way
C28_UnderWay(n) == \E j \in 1..Len(calls) : calls[j].n = n

\* no call stays under way for ever (the same as C28_UnderWay(n) ~> ~C28_UnderWay(n)
\* for every n: a number is taken again only after its call has finished)
C28_EveryCallFinishes == \A n \in 1..MaxCalls : []<>~C28_UnderWay(n)

C28_NoMarkLeft == [](calls = <<>> => regeneratingPageId = Null)

====
